---- MODULE Spec2Model ----
(***************************************************************************)
(* unicode-charname: name resolution (char_name / property_name) and the   *)
(* lazy reconstruction of a name by NameIter.                              *)
(*                                                                         *)
(* Text is modelled by TLA+ strings; "{:04X}" is computed digit by digit.  *)
(* Option<Name> is a record: [tag |-> "None"], or                          *)
(*   [tag |-> "Enumeration", encoded_slice, codepoint_repr], or            *)
(*   [tag |-> "Generated", s].                                             *)
(* Rust slices and arrays are 0-based; they are TLA+ sequences read at     *)
(* index + 1.                                                              *)
(***************************************************************************)
EXTENDS Integers, Sequences, FiniteSets, TLC

VARIABLES cp, pc, name, iters

vars == <<cp, pc, name, iters>>

(***************************************************************************)
(* Bounds of the model.                                                    *)
(***************************************************************************)
\* how many code points are taken from each end of every range of interest
Radius == 1
\* longest word-index slice of an Enumerated name drawn by InitIter
MaxLen == 3
\* word indices 0 .. NumWords-1 occur in the slices drawn by InitIter
NumWords == 5
\* calls of next() after which an iterator is no longer stepped
MaxCalls == 2 * MaxLen + 2

Min(a, b) == IF a < b THEN a ELSE b
Max(a, b) == IF a < b THEN b ELSE a

(***************************************************************************)
(* alloc::format!("{:04X}", v): uppercase hexadecimal, zero-padded to at   *)
(* least four digits.                                                      *)
(***************************************************************************)
HexDigits == <<"0", "1", "2", "3", "4", "5", "6", "7",
               "8", "9", "A", "B", "C", "D", "E", "F">>

RECURSIVE UpperHex(_)
UpperHex(v) ==
    IF v < 16 THEN HexDigits[v + 1]
    ELSE UpperHex(v \div 16) \o HexDigits[(v % 16) + 1]

RECURSIVE ZeroPad(_, _)
ZeroPad(s, width) == IF Len(s) >= width THEN s ELSE ZeroPad("0" \o s, width)

format_04X(v) == ZeroPad(UpperHex(v), 4)

(***************************************************************************)
(* reserved.rs                                                             *)
(***************************************************************************)
CODE_POINT_MAX == \H10FFFF

\* mutant: the last code point is taken for an invalid one
is_code_point_exclusive(v) == v < CODE_POINT_MAX

is_code_point(v) == v <= CODE_POINT_MAX

is_noncharacter(v) ==
    \/ v \in \HFDD0 .. \HFDEF
    \/ v \in \HFFFE .. \HFFFF
    \/ v \in \H1FFFE .. \H1FFFF
    \/ v \in \H2FFFE .. \H2FFFF
    \/ v \in \H3FFFE .. \H3FFFF
    \/ v \in \H4FFFE .. \H4FFFF
    \/ v \in \H5FFFE .. \H5FFFF
    \/ v \in \H6FFFE .. \H6FFFF
    \/ v \in \H7FFFE .. \H7FFFF
    \/ v \in \H8FFFE .. \H8FFFF
    \/ v \in \H9FFFE .. \H9FFFF
    \/ v \in \H10FFFE .. \H10FFFF

(***************************************************************************)
(* tables.rs (generated data, described by the specification): the word    *)
(* dictionary with its two sentinels, an excerpt of the enumeration table  *)
(* and the special-group table.                                            *)
(***************************************************************************)
WORD_TABLE_INDEX_SPACE == 0
WORD_TABLE_INDEX_CODEPOINT == 1

ENUMERATION_WORD_TABLE ==
    <<" ", "", "-", "LATIN", "CAPITAL", "LETTER", "A", "B", "SPACE", "TILDE",
      "NO", "BREAK", "HANGUL", "JUNGSEONG", "O", "E", "CJK", "COMPATIBILITY",
      "IDEOGRAPH", "OX", "OBJECT", "REPLACEMENT", "CHARACTER">>

\* the words that carry their own spacing: the space and the hyphen
is_special_word_index(idx) == idx \in {0, 2}

\* one run of code points: the shared index slice and, per code point of the
\* run, the cut [offsets[k], offsets[k+1]) of it
ENUMERATION_TABLE ==
    << [start |-> \H20, end |-> \H20, index_slice |-> <<8>>, offsets |-> <<0, 1>>],
       [start |-> \H41, end |-> \H42,
        index_slice |-> <<3, 4, 5, 6, 3, 4, 5, 7>>, offsets |-> <<0, 4, 8>>],
       [start |-> \H7E, end |-> \H7E, index_slice |-> <<9>>, offsets |-> <<0, 1>>],
       [start |-> \HA0, end |-> \HA0,
        index_slice |-> <<10, 2, 11, 8>>, offsets |-> <<0, 4>>],
       [start |-> \H1180, end |-> \H1180,
        index_slice |-> <<12, 13, 14, 2, 15>>, offsets |-> <<0, 5>>],
       [start |-> \HF900, end |-> \HF901,
        index_slice |-> <<16, 17, 18, 2, 1, 16, 17, 18, 2, 1>>,
        offsets |-> <<0, 5, 10>>],
       [start |-> \HFFFC, end |-> \HFFFD,
        index_slice |-> <<20, 21, 22, 21, 22>>, offsets |-> <<0, 3, 5>>],
       [start |-> \H1F402, end |-> \H1F402,
        index_slice |-> <<19>>, offsets |-> <<0, 1>> ] >>

SPECIAL_GROUPS ==
    << [start |-> \H0, end |-> \H1F, group |-> "control"],
       [start |-> \H7F, end |-> \H9F, group |-> "control"],
       [start |-> \H3400, end |-> \H4DBF, group |-> "CJKIdeographExtensionA"],
       [start |-> \H4E00, end |-> \H9FFF, group |-> "CJKIdeograph"],
       [start |-> \HAC00, end |-> \HD7A3, group |-> "HangulSyllable"],
       [start |-> \HD800, end |-> \HDB7F, group |-> "NonPrivateUseHighSurrogate"],
       [start |-> \HDB80, end |-> \HDBFF, group |-> "PrivateUseHighSurrogate"],
       [start |-> \HDC00, end |-> \HDFFF, group |-> "LowSurrogate"],
       [start |-> \HE000, end |-> \HF8FF, group |-> "PrivateUse"],
       [start |-> \H17000, end |-> \H187FF, group |-> "TangutIdeograph"],
       [start |-> \H18D00, end |-> \H18D1E, group |-> "TangutIdeographSupplement"],
       [start |-> \H20000, end |-> \H2A6DF, group |-> "CJKIdeographExtensionB"],
       [start |-> \H2A700, end |-> \H2B73F, group |-> "CJKIdeographExtensionC"],
       [start |-> \H2B740, end |-> \H2B81D, group |-> "CJKIdeographExtensionD"],
       [start |-> \H2B820, end |-> \H2CEAD, group |-> "CJKIdeographExtensionE"],
       [start |-> \H2CEB0, end |-> \H2EBE0, group |-> "CJKIdeographExtensionF"],
       [start |-> \H2EBF0, end |-> \H2EE5D, group |-> "CJKIdeographExtensionI"],
       [start |-> \H30000, end |-> \H3134A, group |-> "CJKIdeographExtensionG"],
       [start |-> \H31350, end |-> \H323AF, group |-> "CJKIdeographExtensionH"],
       [start |-> \H323B0, end |-> \H33479, group |-> "CJKIdeographExtensionJ"],
       [start |-> \HF0000, end |-> \HFFFFD, group |-> "Plane15PrivateUse"],
       [start |-> \H100000, end |-> \H10FFFD, group |-> "Plane16PrivateUse"] >>

\* binary search with the three-way comparator of the range tables; the
\* result is the index of the entry holding c, or 0
RECURSIVE range_search(_, _, _, _)
range_search(table, lo, hi, c) ==
    IF lo > hi THEN 0
    ELSE LET mid == (lo + hi) \div 2
         IN  IF table[mid].end < c THEN range_search(table, mid + 1, hi, c)
             ELSE IF table[mid].start > c THEN range_search(table, lo, mid - 1, c)
             ELSE mid

NoSlice == [found |-> FALSE, slice |-> <<>>]

find_in_enumerate_names(c) ==
    LET i == range_search(ENUMERATION_TABLE, 1, Len(ENUMERATION_TABLE), c)
    IN  IF i = 0 THEN NoSlice
        ELSE LET e == ENUMERATION_TABLE[i]
                 k == c - e.start
             IN  [found |-> TRUE,
                  slice |-> SubSeq(e.index_slice, e.offsets[k + 1] + 1, e.offsets[k + 2])]

NoGroup == "none"

find_in_special_groups(c) ==
    LET i == range_search(SPECIAL_GROUPS, 1, Len(SPECIAL_GROUPS), c)
    IN  IF i = 0 THEN NoGroup ELSE SPECIAL_GROUPS[i].group

(***************************************************************************)
(* jamo.rs (described by the specification): the Hangul syllable name.     *)
(***************************************************************************)
S_BASE == \HAC00
V_COUNT == 21
T_COUNT == 28

JAMO_L == <<"G", "GG", "N", "D", "DD", "R", "M", "B", "BB", "S", "SS", "",
            "J", "JJ", "C", "K", "T", "P", "H">>
JAMO_V == <<"A", "AE", "YA", "YAE", "EO", "E", "YEO", "YE", "O", "WA", "WAE",
            "OE", "YO", "U", "WEO", "WE", "WI", "YU", "EU", "YI", "I">>
JAMO_T == <<"", "G", "GG", "GS", "N", "NJ", "NH", "D", "L", "LG", "LM", "LB",
            "LS", "LT", "LP", "LH", "M", "B", "BS", "S", "SS", "NG", "J", "C",
            "K", "T", "P", "H">>

hangul_name(v) ==
    LET s == v - S_BASE
        l == s \div (V_COUNT * T_COUNT)
        vw == (s % (V_COUNT * T_COUNT)) \div T_COUNT
        t == s % T_COUNT
    IN  "HANGUL SYLLABLE " \o JAMO_L[l + 1] \o JAMO_V[vw + 1] \o JAMO_T[t + 1]

(***************************************************************************)
(* lib.rs: the Name value and its generators.                              *)
(***************************************************************************)
None == [tag |-> "None"]

Enumeration(slice, repr) ==
    [tag |-> "Enumeration", encoded_slice |-> slice, codepoint_repr |-> repr]

Generated(str) == [tag |-> "Generated", s |-> str]

nr1_name(prefix, v) == Generated(hangul_name(v))

nr2_name(prefix, v) == Generated(prefix \o format_04X(v))

code_point_label(prefix, v, use_angle_bracket) ==
    IF use_angle_bracket
    THEN Generated("<" \o prefix \o format_04X(v) \o ">")
    ELSE Generated(prefix \o format_04X(v))

\* CodePointLabelMode
LabelNone == [label |-> FALSE, use_angle_bracket |-> FALSE]
Label(use_angle_bracket) == [label |-> TRUE, use_angle_bracket |-> use_angle_bracket]

CJKGroups ==
    {"CJKIdeographExtensionA", "CJKIdeograph", "CJKIdeographExtensionB",
     "CJKIdeographExtensionC", "CJKIdeographExtensionD", "CJKIdeographExtensionE",
     "CJKIdeographExtensionF", "CJKIdeographExtensionG", "CJKIdeographExtensionH",
     "CJKIdeographExtensionI", "CJKIdeographExtensionJ"}
TangutGroups == {"TangutIdeograph", "TangutIdeographSupplement"}
SurrogateGroups ==
    {"NonPrivateUseHighSurrogate", "PrivateUseHighSurrogate", "LowSurrogate"}
PrivateUseGroups == {"PrivateUse", "Plane15PrivateUse", "Plane16PrivateUse"}

LabelGroups == {"control"} \cup SurrogateGroups \cup PrivateUseGroups

\* mutant: the private-use high surrogates are labelled as private use
label_prefix_by_band(special_group) ==
    CASE special_group = "control" -> "control-"
      [] special_group \in {"NonPrivateUseHighSurrogate", "LowSurrogate"} -> "surrogate-"
      [] special_group \in PrivateUseGroups \cup {"PrivateUseHighSurrogate"} ->
            "private-use-"

\* the prefix each label arm passes to code_point_label
label_prefix(special_group) ==
    CASE special_group = "control" -> "control-"
      [] special_group \in SurrogateGroups -> "surrogate-"
      [] special_group \in PrivateUseGroups -> "private-use-"

name_for_special_group_char(v, special_group, code_point_label_mode) ==
    CASE special_group = "HangulSyllable" -> nr1_name("HANGUL SYLLABLE ", v)
      [] special_group \in CJKGroups -> nr2_name("CJK UNIFIED IDEOGRAPH-", v)
      [] special_group \in TangutGroups -> nr2_name("TANGUT IDEOGRAPH-", v)
      [] special_group \in LabelGroups ->
            IF code_point_label_mode.label
            THEN code_point_label(label_prefix(special_group), v,
                                  code_point_label_mode.use_angle_bracket)
            ELSE None

char_name(c) ==
    LET found == find_in_enumerate_names(c)
        special_group == find_in_special_groups(c)
    IN  IF found.found THEN Enumeration(found.slice, format_04X(c))
        ELSE IF special_group # NoGroup
             THEN name_for_special_group_char(c, special_group, Label(TRUE))
        ELSE IF is_code_point(c)
             THEN IF is_noncharacter(c)
                  THEN code_point_label("noncharacter-", c, TRUE)
                  ELSE code_point_label("reserved-", c, TRUE)
        ELSE None

\* mutant: the label mode of char_name, without the brackets
property_name_labelled(c) ==
    LET found == find_in_enumerate_names(c)
        special_group == find_in_special_groups(c)
    IN  IF found.found THEN Enumeration(found.slice, format_04X(c))
        ELSE IF special_group # NoGroup
             THEN name_for_special_group_char(c, special_group, Label(FALSE))
        ELSE None

property_name(c) ==
    LET found == find_in_enumerate_names(c)
        special_group == find_in_special_groups(c)
    IN  IF found.found THEN Enumeration(found.slice, format_04X(c))
        ELSE IF special_group # NoGroup
             THEN name_for_special_group_char(c, special_group, LabelNone)
        ELSE None

(***************************************************************************)
(* lib.rs: NameIter.  A cursor is [offset, state]; a state is a record     *)
(* with the variant's tag and, for InsertSpace and Middle, cur_special.    *)
(***************************************************************************)
Initial == [tag |-> "Initial", cur_special |-> FALSE]
InsertSpace(cur_special) == [tag |-> "InsertSpace", cur_special |-> cur_special]
Middle(cur_special) == [tag |-> "Middle", cur_special |-> cur_special]
Finished == [tag |-> "Finished", cur_special |-> FALSE]

\* Name::iter
iter(n) == [offset |-> 0, state |-> Initial]

\* What one call of next() returns, with the arm that produced it: "word"
\* (with the slice position read), "space", "string" (a Generated name),
\* "none" (Option::None), or a panic: "unreachable" for unreachable!() and
\* "out_of_bounds" for a slice index past the end.
Item(arm, text, pos) == [arm |-> arm, text |-> text, pos |-> pos]
NoItem == Item("none", "", 0)
Panics == {"unreachable", "out_of_bounds"}

\* mutant: the hex text is substituted for the space sentinel
word_text_space_sentinel(n, cur_word_idx) ==
    IF cur_word_idx = WORD_TABLE_INDEX_SPACE
    THEN n.codepoint_repr
    ELSE ENUMERATION_WORD_TABLE[cur_word_idx + 1]

\* the fragment of a word: the cached hex text for the code-point sentinel,
\* the dictionary word otherwise
word_text(n, cur_word_idx) ==
    IF cur_word_idx = WORD_TABLE_INDEX_CODEPOINT
    THEN n.codepoint_repr
    ELSE ENUMERATION_WORD_TABLE[cur_word_idx + 1]

\* mutant: the flag threaded to the next state is the current word's, not
\* the next word's
state_after_word_carry_cur(state, cur_word_idx, next_word_idx) ==
    IF state.tag \notin {"Initial", "Middle"}
    THEN [tag |-> "unreachable", cur_special |-> FALSE]
    ELSE LET cur_special ==
                 IF state.tag = "Initial"
                 THEN is_special_word_index(cur_word_idx)
                 ELSE state.cur_special
             next_special == is_special_word_index(next_word_idx)
         IN  IF ~cur_special /\ ~next_special
             THEN InsertSpace(cur_special)
             ELSE Middle(cur_special)

\* the state left by a word that has a successor; the tag "unreachable"
\* stands for unreachable!()
state_after_word(state, cur_word_idx, next_word_idx) ==
    IF state.tag \notin {"Initial", "Middle"}
    THEN [tag |-> "unreachable", cur_special |-> FALSE]
    ELSE LET cur_special ==
                 IF state.tag = "Initial"
                 THEN is_special_word_index(cur_word_idx)
                 ELSE state.cur_special
             next_special == is_special_word_index(next_word_idx)
         IN  IF ~cur_special /\ ~next_special
             THEN InsertSpace(next_special)
             ELSE Middle(next_special)

\* mutant: the successor is looked up one position early, so the last word
\* is its own successor and never finishes the iteration
next_word_early_lookup(n, it) ==
    LET encoded_slice == n.encoded_slice
        len == Len(encoded_slice)
    IN  IF it.offset >= len
        THEN [it |-> it, item |-> Item("out_of_bounds", "", it.offset)]
        ELSE
        LET cur_word_idx == encoded_slice[it.offset + 1]
            offset == it.offset + 1
            item == Item("word", word_text(n, cur_word_idx), it.offset)
            state == state_after_word(it.state, cur_word_idx, encoded_slice[offset])
        IN  IF state.tag = "unreachable"
            THEN [it |-> [it EXCEPT !.offset = offset],
                  item |-> Item("unreachable", "", it.offset)]
            ELSE [it |-> [offset |-> offset, state |-> state], item |-> item]

\* the arm `_ => { ... }` of the Enumeration match: Initial | Middle {..}
next_word(n, it) ==
    LET encoded_slice == n.encoded_slice
        len == Len(encoded_slice)
    IN  IF it.offset >= len
        THEN [it |-> it, item |-> Item("out_of_bounds", "", it.offset)]
        ELSE
        LET cur_word_idx == encoded_slice[it.offset + 1]
            offset == it.offset + 1
            item == Item("word", word_text(n, cur_word_idx), it.offset)
        IN  IF offset < len
            THEN LET state == state_after_word(it.state, cur_word_idx,
                                               encoded_slice[offset + 1])
                 IN  IF state.tag = "unreachable"
                     THEN [it |-> [it EXCEPT !.offset = offset],
                           item |-> Item("unreachable", "", it.offset)]
                     ELSE [it |-> [offset |-> offset, state |-> state], item |-> item]
            ELSE [it |-> [offset |-> offset, state |-> Finished], item |-> item]

\* mutant: the pending space is yielded without leaving InsertSpace
next_space_stuck(n, it) ==
    IF n.tag = "Enumeration"
    THEN IF it.state.tag = "Finished" THEN [it |-> it, item |-> NoItem]
         ELSE IF it.offset >= Len(n.encoded_slice)
              THEN [it |-> [it EXCEPT !.state = Finished], item |-> NoItem]
         ELSE IF it.state.tag = "InsertSpace"
              THEN [it |-> it,
                    item |-> Item("space",
                                  ENUMERATION_WORD_TABLE[WORD_TABLE_INDEX_SPACE + 1], 0)]
         ELSE next_word(n, it)
    ELSE IF it.state.tag = "Initial"
         THEN [it |-> [it EXCEPT !.state = Finished], item |-> Item("string", n.s, 0)]
         ELSE IF it.state.tag = "Finished" THEN [it |-> it, item |-> NoItem]
         ELSE [it |-> it, item |-> Item("unreachable", "", 0)]

\* mutant: the end-of-slice guard compares with > instead of >=
next_guard_off_by_one(n, it) ==
    IF n.tag = "Enumeration"
    THEN IF it.state.tag = "Finished" THEN [it |-> it, item |-> NoItem]
         ELSE IF it.offset > Len(n.encoded_slice)
              THEN [it |-> [it EXCEPT !.state = Finished], item |-> NoItem]
         ELSE IF it.state.tag = "InsertSpace"
              THEN [it |-> [it EXCEPT !.state = Middle(it.state.cur_special)],
                    item |-> Item("space",
                                  ENUMERATION_WORD_TABLE[WORD_TABLE_INDEX_SPACE + 1], 0)]
         ELSE next_word(n, it)
    ELSE IF it.state.tag = "Initial"
         THEN [it |-> [it EXCEPT !.state = Finished], item |-> Item("string", n.s, 0)]
         ELSE IF it.state.tag = "Finished" THEN [it |-> it, item |-> NoItem]
         ELSE [it |-> it, item |-> Item("unreachable", "", 0)]

\* NameIter::next
next(n, it) ==
    IF n.tag = "Enumeration"
    THEN IF it.state.tag = "Finished" THEN [it |-> it, item |-> NoItem]
         ELSE IF it.offset >= Len(n.encoded_slice)
              THEN [it |-> [it EXCEPT !.state = Finished], item |-> NoItem]
         ELSE IF it.state.tag = "InsertSpace"
              THEN [it |-> [it EXCEPT !.state = Middle(it.state.cur_special)],
                    item |-> Item("space",
                                  ENUMERATION_WORD_TABLE[WORD_TABLE_INDEX_SPACE + 1], 0)]
         ELSE next_word(n, it)
    ELSE IF it.state.tag = "Initial"
         THEN [it |-> [it EXCEPT !.state = Finished], item |-> Item("string", n.s, 0)]
         ELSE IF it.state.tag = "Finished" THEN [it |-> it, item |-> NoItem]
         ELSE [it |-> it, item |-> Item("unreachable", "", 0)]

\* Display::fmt: write every fragment of a fresh iteration, in order
RECURSIVE write_all(_, _)
write_all(n, it) ==
    LET r == next(n, it)
    IN  IF r.item.arm \in Panics \cup {"none"} THEN ""
        ELSE r.item.text \o write_all(n, r.it)

fmt(n) == write_all(n, iter(n))

(***************************************************************************)
(* The state machine.  cp is the queried code point, pc the call made with *)
(* it, name the Option<Name> it returned; iters holds the cursors obtained *)
(* from name with iter(): for each, the cursor, the fragments it has       *)
(* yielded and the number of next() calls made on it.                      *)
(***************************************************************************)
Iters == {1, 2}

NoIter == [active |-> FALSE, it |-> iter(None), out |-> <<>>, calls |-> 0, last |-> NoItem]

Ends(a, b) == (a .. Min(b, a + Radius)) \cup (Max(a, b - Radius) .. b)

TableEnds(table) ==
    UNION {Ends(table[i].start, table[i].end) : i \in 1 .. Len(table)}

\* the code points queried: both ends of every run of the two tables, of the
\* noncharacter ranges of every plane, of stretches of unassigned code points,
\* of the integers past the last code point, and the documented U+0081
CodePoints ==
    TableEnds(ENUMERATION_TABLE) \cup TableEnds(SPECIAL_GROUPS)
    \cup Ends(\HFDD0, \HFDEF)
    \cup UNION {Ends(p * \H10000 + \HFFFE, p * \H10000 + \HFFFF) : p \in 0 .. 16}
    \cup UNION {Ends(p * \H10000, p * \H10000 + \HFFFD) : p \in 4 .. 13}
    \cup Ends(\H378, \H379) \cup Ends(\HD7A4, \HD7AF) \cup Ends(\H2FA1E, \H2FFFD)
    \cup Ends(\H3347A, \H3FFFD) \cup Ends(\HE0080, \HE00FF) \cup Ends(\HE01F0, \HEFFFD)
    \cup Ends(\H110000, \H200000) \cup Ends(\H7FFFFFF0, \H7FFFFFFE)
    \cup {\H81}

Init ==
    /\ cp \in CodePoints
    /\ pc = "start"
    /\ name = None
    /\ iters = [i \in Iters |-> NoIter]

CallCharName ==
    /\ pc = "start"
    /\ name' = char_name(cp)
    /\ pc' = "char_name"
    /\ UNCHANGED <<cp, iters>>

CallPropertyName ==
    /\ pc = "start"
    /\ name' = property_name(cp)
    /\ pc' = "property_name"
    /\ UNCHANGED <<cp, iters>>

\* mutant: the slot's cursor is rewound to Initial but keeps its offset
StartIterKeepOffset(i) ==
    /\ pc \in {"char_name", "property_name", "made"}
    /\ name # None
    /\ iters' = [iters EXCEPT ![i] =
                    [active |-> TRUE, it |-> [iter(name) EXCEPT !.offset = iters[i].it.offset],
                     out |-> <<>>, calls |-> 0, last |-> NoItem]]
    /\ UNCHANGED <<cp, pc, name>>

\* let it = name.iter(): a fresh cursor, whatever was in the slot before
StartIter(i) ==
    /\ pc \in {"char_name", "property_name", "made"}
    /\ name # None
    /\ iters' = [iters EXCEPT ![i] =
                    [active |-> TRUE, it |-> iter(name), out |-> <<>>, calls |-> 0,
                     last |-> NoItem]]
    /\ UNCHANGED <<cp, pc, name>>

\* it.next()
Step(i) ==
    /\ pc \in {"char_name", "property_name", "made"}
    /\ iters[i].active
    /\ iters[i].calls < MaxCalls
    /\ LET r == next(name, iters[i].it)
       IN  /\ iters' = [iters EXCEPT ![i] =
                  [active |-> TRUE, it |-> r.it,
                   out |-> IF r.item.arm \in Panics \cup {"none"} THEN @.out
                           ELSE Append(@.out, r.item),
                   calls |-> @.calls + 1,
                   last |-> r.item]]
           /\ pc' = IF r.item.arm \in Panics THEN "panic" ELSE pc
    /\ UNCHANGED <<cp, name>>

NextIter == \E i \in Iters : StartIter(i) \/ Step(i)

Next == CallCharName \/ CallPropertyName \/ NextIter

Spec == Init /\ [][Next]_vars

\* Name values as any caller of the iterator may hold them: every slice of
\* at most MaxLen word indices below NumWords, and generated strings
RECURSIVE SlicesUpTo(_)
SlicesUpTo(k) ==
    IF k = 0 THEN {<<>>}
    ELSE LET shorter == SlicesUpTo(k - 1)
         IN  shorter \cup {Append(s, w) : s \in shorter, w \in 0 .. NumWords - 1}

IterCodePoints == {\H41, \H1F402}

InitIter ==
    /\ cp \in IterCodePoints
    /\ pc = "made"
    /\ name \in {Enumeration(s, format_04X(cp)) : s \in SlicesUpTo(MaxLen)}
                \cup {Generated(""), nr2_name("CJK UNIFIED IDEOGRAPH-", cp),
                      code_point_label("reserved-", cp, TRUE)}
    /\ iters = [i \in Iters |-> NoIter]

SpecIter == InitIter /\ [][NextIter]_vars

(***************************************************************************)
(* The text a code point's hexadecimal form is required to be, computed    *)
(* digit position by digit position: uppercase, at least four digits, no   *)
(* more than four unless the value needs them.                             *)
(***************************************************************************)
UpperHexDigit(d) ==
    IF d < 10 THEN <<"0", "1", "2", "3", "4", "5", "6", "7", "8", "9">>[d + 1]
    ELSE <<"A", "B", "C", "D", "E", "F">>[d - 9]

RECURSIVE DigitsNeeded(_)
DigitsNeeded(c) == IF c < 16 THEN 1 ELSE 1 + DigitsNeeded(c \div 16)

RECURSIVE HexFrom(_, _)
HexFrom(c, k) ==
    IF k < 0 THEN ""
    ELSE UpperHexDigit((c \div (16 ^ k)) % 16) \o HexFrom(c, k - 1)

PaddedHex(c) == HexFrom(c, Max(4, DigitsNeeded(c)) - 1)

\* neither table holds c
Unmatched(c) == ~find_in_enumerate_names(c).found /\ find_in_special_groups(c) = NoGroup

\* the noncharacters of the Unicode Standard: U+FDD0..U+FDEF and the last
\* two code points of each of the 17 planes
Noncharacter(c) ==
    \/ c \in \HFDD0 .. \HFDEF
    \/ \E plane \in 0 .. 16 : c \in {plane * \H10000 + \HFFFE, plane * \H10000 + \HFFFF}

\* C1: char_name of a valid code point that neither table holds renders
\* "<noncharacter-XXXX>" exactly when the code point is in FDD0..FDEF or is
\* one of the last two code points of a plane 0..16, and "<reserved-XXXX>"
\* otherwise, XXXX being the padded uppercase hexadecimal code point.
C1_NoncharacterOrReserved ==
    (pc = "char_name" /\ Unmatched(cp) /\ cp <= \H10FFFF) =>
        /\ name # None
        /\ fmt(name) = (IF Noncharacter(cp) THEN "<noncharacter-" ELSE "<reserved-")
                       \o PaddedHex(cp) \o ">"

\* C2: char_name returns Some for every code point 0..10FFFF and None for
\* every larger integer; past 10FFFF neither table produces a result.
C2_SomeIffCodePoint ==
    pc = "char_name" =>
        /\ (name # None) <=> (cp <= \H10FFFF)
        /\ cp > \H10FFFF => Unmatched(cp)

C2_Witness ==
    /\ pc = "char_name" /\ cp = \H10FFFF /\ Unmatched(cp)
    /\ name = Generated("<noncharacter-10FFFF>")

\* C3: property_name is None for control, surrogate, private-use, reserved
\* and noncharacter code points and for integers past 10FFFF; for every
\* other code point it is Some and renders the same text as char_name.
C3_PropertyName ==
    pc = "property_name" =>
        IF \/ Unmatched(cp)
           \/ (~find_in_enumerate_names(cp).found
                 /\ find_in_special_groups(cp) \in LabelGroups)
        THEN name = None
        ELSE name # None /\ char_name(cp) # None /\ fmt(name) = fmt(char_name(cp))

C3_Witness ==
    /\ pc = "property_name" /\ cp = \HD7A3
    /\ \E i \in Iters : iters[i].it.state = Finished /\ iters[i].calls > 0
                        /\ Len(iters[i].out) = 1
                        /\ iters[i].out[1].text = "HANGUL SYLLABLE HIH"

\* C5: char_name of a control, surrogate or private-use code point renders
\* "<" label "-" hex ">", the label being control, surrogate or private-use
\* and the same for every sub-band, hex the padded uppercase code point.
C5_Label(c) ==
    LET g == find_in_special_groups(c)
    IN  IF g = "control" THEN "control"
        ELSE IF g \in {"NonPrivateUseHighSurrogate", "PrivateUseHighSurrogate",
                       "LowSurrogate"} THEN "surrogate"
        ELSE "private-use"

IsPrefix(a, b) == Len(a) <= Len(b) /\ SubSeq(b, 1, Len(a)) = a

IsFinished(i) == iters[i].active /\ iters[i].it.state.tag = "Finished"

slice == name.encoded_slice

\* the fragments of any two cursors agree as far as both have got, and are
\* equal once both are Finished
C4_SameFragments ==
    \A i, j \in Iters :
        (iters[i].active /\ iters[j].active) =>
            /\ IsPrefix(iters[i].out, iters[j].out) \/ IsPrefix(iters[j].out, iters[i].out)
            /\ (IsFinished(i) /\ IsFinished(j)) => iters[i].out = iters[j].out

C6_SpaceRule ==
    \A i \in Iters :
        (iters[i].active /\ name.tag = "Enumeration") =>
            LET o == iters[i].out
            IN  /\ \A k \in 1 .. Len(o) :
                      o[k].arm = "space" =>
                          /\ k > 1 /\ o[k - 1].arm = "word"
                          /\ LET p == o[k - 1].pos
                             IN  /\ p + 1 < Len(slice)
                                 /\ ~is_special_word_index(slice[p + 1])
                                 /\ ~is_special_word_index(slice[p + 2])
                                 /\ k < Len(o) =>
                                        (o[k + 1].arm = "word" /\ o[k + 1].pos = p + 1)
                /\ \A k \in 1 .. Len(o) - 1 :
                      (o[k].arm = "word" /\ o[k + 1].arm = "word") =>
                          /\ o[k + 1].pos = o[k].pos + 1
                          /\ \/ is_special_word_index(slice[o[k].pos + 1])
                             \/ is_special_word_index(slice[o[k].pos + 2])
                /\ (IsFinished(i) /\ Len(o) > 0) => o[Len(o)].arm = "word"

C6_Witness ==
    /\ name.tag = "Enumeration" /\ slice = <<3, 4, 2>>
    /\ IsFinished(1) /\ Len(iters[1].out) = 4
    /\ iters[1].out[2].arm = "space" /\ iters[1].out[4].text = "-"

\* C7: the non-space fragments are, in order, one per slice position
\* 0..n-1: the hex text of the queried code point for the code-point
\* sentinel, the dictionary word otherwise.
Words(o) == SelectSeq(o, LAMBDA x : x.arm = "word")

C7_WordFragments ==
    \A i \in Iters :
        (iters[i].active /\ name.tag = "Enumeration") =>
            LET w == Words(iters[i].out)
            IN  /\ \A k \in 1 .. Len(iters[i].out) : iters[i].out[k].arm \in {"word", "space"}
                /\ Len(w) <= Len(slice)
                /\ \A k \in 1 .. Len(w) :
                      /\ w[k].pos = k - 1
                      /\ w[k].text = IF slice[k] = WORD_TABLE_INDEX_CODEPOINT
                                     THEN PaddedHex(cp)
                                     ELSE ENUMERATION_WORD_TABLE[slice[k] + 1]
                /\ IsFinished(i) => Len(w) = Len(slice)

C7_Witness ==
    /\ name.tag = "Enumeration" /\ slice = <<3, 2, 1>> /\ cp = \H1F402
    /\ IsFinished(1) /\ Len(iters[1].out) = 3
    /\ iters[1].out[3].text = "1F402"

\* every call before Finished yields a fragment, so the calls made bound the
\* fragments: 2n-1 calls finish n >= 1 words, one call a Generated name
C8_Bounded ==
    \A i \in Iters :
        iters[i].active =>
            /\ (name.tag = "Enumeration" /\ Len(slice) >= 1) =>
                  /\ Len(iters[i].out) <= 2 * Len(slice) - 1
                  /\ iters[i].calls >= 2 * Len(slice) - 1 => IsFinished(i)
            /\ name.tag = "Generated" =>
                  /\ iters[i].calls >= 1 => (IsFinished(i) /\ Len(iters[i].out) = 1)
                  /\ iters[i].calls = 0 => Len(iters[i].out) = 0

\* a call on a Finished cursor yields nothing and leaves the cursor alone
C8_Absorbing ==
    \A i \in Iters :
        (IsFinished(i) /\ iters'[i].calls = iters[i].calls + 1) =>
            /\ iters'[i].it = iters[i].it
            /\ iters'[i].out = iters[i].out
            /\ iters'[i].last = NoItem

\* C8: an iteration over n >= 1 words is Finished after at most 2n-1
\* fragments, one over a Generated name after exactly one; once Finished,
\* a call yields nothing and leaves the state and the offset as they were.
C8_Terminates == []C8_Bounded /\ [][C8_Absorbing]_vars

C8_Witness ==
    /\ name.tag = "Enumeration" /\ Len(slice) = 3
    /\ IsFinished(2) /\ Len(iters[2].out) = 5 /\ iters[2].calls = 7

\* C9: on an empty slice the first call yields nothing and moves the
\* iterator from Initial to Finished without reading the slice; the name
\* renders as the empty string.
C9_EmptySlice ==
    (name.tag = "Enumeration" /\ Len(slice) = 0) =>
        /\ pc # "panic"
        /\ fmt(name) = ""
        /\ \A i \in Iters :
              iters[i].active =>
                  /\ iters[i].out = <<>>
                  /\ iters[i].last = NoItem
                  /\ iters[i].it.offset = 0
                  /\ iters[i].it.state = (IF iters[i].calls = 0 THEN Initial ELSE Finished)

C9_Witness ==
    /\ name.tag = "Enumeration" /\ Len(slice) = 0
    /\ IsFinished(1) /\ iters[1].calls = 1

\* C10: no call panics (neither unreachable!() nor an index past the end
\* of the slice); a Generated name's cursor is Initial or Finished; a word is
\* read only in Initial or Middle at an offset inside the slice; in
\* InsertSpace the offset is inside the slice.
C10_NoPanic ==
    /\ pc # "panic"
    /\ \A i \in Iters :
          iters[i].active =>
              /\ iters[i].last.arm \notin Panics
              /\ name.tag = "Generated" =>
                    iters[i].it.state.tag \in {"Initial", "Finished"}
              /\ name.tag = "Enumeration" =>
                    /\ iters[i].it.state.tag \in {"InsertSpace", "Middle"} =>
                          iters[i].it.offset < Len(slice)
                    /\ iters[i].it.state.tag = "Initial" => iters[i].it.offset = 0
                    /\ iters[i].it.offset <= Len(slice)
                    /\ iters[i].last.arm = "word" =>
                          (iters[i].last.pos < Len(slice)
                             /\ iters[i].it.offset = iters[i].last.pos + 1)

C10_Witness ==
    /\ name.tag = "Enumeration" /\ Len(slice) = 3
    /\ iters[1].active /\ iters[1].it.state.tag = "InsertSpace" /\ iters[1].it.offset = 2
    /\ iters[2].active /\ iters[2].it.state.tag = "Middle" /\ iters[2].it.offset = 1

====
